---- MODULE Spec2Model ----
(***************************************************************************)
(* Questionnaire-to-CSV projection of RSE-AUDIREP.                         *)
(*                                                                         *)
(*   server.js           loadQuestionsDefinition, flattenQuestions,        *)
(*                       buildCsvConfiguration, formatCsvValue,            *)
(*                       ensureCsvHeader, extractAnswerValue,              *)
(*                       appendStructuredAnswersToCsv, POST save-responses *)
(*   public/savecsv.php  the PHP writer of the same CSV file               *)
(*                                                                         *)
(* A string is a sequence of atoms.  The three characters CSV cares about  *)
(* (double quote, comma, newline) are atoms of their own; every other atom *)
(* is a chunk of ordinary text.  Concatenation is \o.  The CSV file is the *)
(* sequence of atoms written to it.                                        *)
(*                                                                         *)
(* The Node functions are async: a step of the model is the code between   *)
(* two awaits, and each fs call (readFile, access, writeFile, appendFile)  *)
(* completes as one step that either takes effect or rejects.              *)
(***************************************************************************)
EXTENDS Integers, Sequences, FiniteSets, TLC

VARIABLES
    questionsFile,              \* content of public/questions.json
    cachedQuestionsDefinition,  \* server.js:39
    csvExists,                  \* does questionnaire_qvt_responses.csv exist
    csvBytes,                   \* its content
    pc,                         \* per Node call: position in appendStructuredAnswersToCsv
    args,                       \* per Node call: its arguments
    questionsDefinition,        \* per Node call: the local of server.js:166
    outcome,                    \* per Node call: how its promise settled
    log,                        \* per Node call: what happened to it (history)
    reads,                      \* completed reads of questions.json
    http,                       \* POST /api/save-responses: the last response
    php,                        \* savecsv.php: the requests served so far
    pureIn,                     \* input of a pure function
    pureOut                     \* its result

vars == <<questionsFile, cachedQuestionsDefinition, csvExists, csvBytes, pc, args,
          questionsDefinition, outcome, log, reads, http, php, pureIn, pureOut>>

----------------------------------------------------------------------------
(* Bounds *)

MaxCalls == 2       \* concurrent calls of appendStructuredAnswersToCsv
MaxQuestions == 3   \* questions of a schema given to the layout builder
MaxRequests == 2    \* requests served by savecsv.php / save-responses

----------------------------------------------------------------------------
(* Strings and JavaScript / PHP values *)

Quote == "\""
Comma == ","
Newline == "\n"

Undefined == [t |-> "undefined", s |-> <<>>, n |-> 0]
Null == [t |-> "null", s |-> <<>>, n |-> 0]
Str(s) == [t |-> "string", s |-> s, n |-> 0]
Num(n) == [t |-> "number", s |-> <<>>, n |-> n]

Digits == <<"0", "1", "2", "3", "4", "5", "6", "7", "8", "9">>

RECURSIVE NumberStringOf(_)
\* String(n) of a non-negative integer
NumberStringOf(n) ==
    IF n < 10 THEN <<Digits[n + 1]>>
    ELSE NumberStringOf(n \div 10) \o <<Digits[(n % 10) + 1]>>

\* String(v) for a value that is neither undefined nor null
StringOf(v) == IF v.t = "number" THEN NumberStringOf(v.n) ELSE v.s

\* JavaScript truthiness of a primitive
Truthy(v) ==
    CASE v.t = "undefined" -> FALSE
      [] v.t = "null" -> FALSE
      [] v.t = "string" -> v.s # <<>>
      [] v.t = "number" -> v.n # 0

\* a || b
OrElse(a, b) == IF Truthy(a) THEN a ELSE b

(* An answer stored under a question id: absent from the map, null, a bare *)
(* scalar, or a record with the fields value and followup (each possibly   *)
(* undefined or null).                                                     *)
Absent == [k |-> "absent", value |-> Undefined, followup |-> Undefined]
NullAnswer == [k |-> "null", value |-> Undefined, followup |-> Undefined]
Scalar(v) == [k |-> "scalar", value |-> v, followup |-> Undefined]
Record(v, f) == [k |-> "record", value |-> v, followup |-> f]

----------------------------------------------------------------------------
(* server.js: pure functions *)

\* A question of questions.json; id <<>> stands for a missing id.
Question(id, type) == [id |-> id, type |-> type]
\* A section; isArray is Array.isArray(section.questions).
Section(isArray, questions) == [isArray |-> isArray, questions |-> questions]
\* A parsed definition; isArray is Array.isArray(definition.sections).
Definition(isArray, sections) == [isArray |-> isArray, sections |-> sections]

RECURSIVE FlattenSections(_)
FlattenSections(sections) ==
    IF sections = <<>> THEN <<>>
    ELSE (IF Head(sections).isArray THEN Head(sections).questions ELSE <<>>)
         \o FlattenSections(Tail(sections))

flattenQuestions(definition) ==
    IF ~definition.isArray THEN <<>> ELSE FlattenSections(definition.sections)

RECURSIVE IdsOfType(_, _)
\* the forEach of server.js:80-92 for one of the three arrays
IdsOfType(questions, type) ==
    IF questions = <<>> THEN <<>>
    ELSE LET q == Head(questions)
             rest == IdsOfType(Tail(questions), type)
         IN IF q.id # <<>> /\ q.type = type THEN <<q.id>> \o rest ELSE rest

RECURSIVE Filter(_, _)
\* seq.filter(id => id \notin drop)
Filter(seq, drop) ==
    IF seq = <<>> THEN <<>>
    ELSE (IF Head(seq) \in drop THEN <<>> ELSE <<Head(seq)>>) \o Filter(Tail(seq), drop)

Contains(seq, x) == \E i \in 1..Len(seq) : seq[i] = x

QO_INTRO == <<"QO_INTRO">>
QO_OUTRO == <<"QO_OUTRO">>
FollowupSuffix == <<"_followup">>

\* the open ids left in schema order, no sentinel moved
OrderedOpenIds_Unpinned(openIds) == openIds

OrderedOpenIds(openIds) ==
    LET hasIntro == Contains(openIds, QO_INTRO)
        hasOutro == Contains(openIds, QO_OUTRO)
        middleOpenIds == Filter(openIds, (IF hasIntro THEN {QO_INTRO} ELSE {})
                                         \cup (IF hasOutro THEN {QO_OUTRO} ELSE {}))
    IN (IF hasIntro THEN <<QO_INTRO>> ELSE <<>>)
       \o middleOpenIds
       \o (IF hasOutro THEN <<QO_OUTRO>> ELSE <<>>)

RECURSIVE RatingColumns(_)
RatingColumns(ratingIds) ==
    IF ratingIds = <<>> THEN <<>>
    ELSE <<Head(ratingIds), Head(ratingIds) \o FollowupSuffix>>
         \o RatingColumns(Tail(ratingIds))

BaseColumns == << <<"sessionId">>, <<"timestampStart">>, <<"timestampEnd">> >>

buildCsvConfiguration(flattenedQuestions) ==
    LET ratingIds == IdsOfType(flattenedQuestions, "rating")
        radioIds == IdsOfType(flattenedQuestions, "radio")
        openIds == IdsOfType(flattenedQuestions, "open")
        orderedOpenIds == OrderedOpenIds(openIds)
    IN [columns |-> BaseColumns \o orderedOpenIds \o RatingColumns(ratingIds) \o radioIds,
        ratingIds |-> ratingIds,
        radioIds |-> radioIds,
        openIds |-> orderedOpenIds]

RECURSIVE EscapeQuotes(_)
\* stringValue.replace(/"/g, '""')
EscapeQuotes(s) ==
    IF s = <<>> THEN <<>>
    ELSE (IF Head(s) = Quote THEN <<Quote, Quote>> ELSE <<Head(s)>>) \o EscapeQuotes(Tail(s))

formatCsvValue(value) ==
    LET stringValue == IF value.t \in {"undefined", "null"} THEN <<>> ELSE StringOf(value)
    IN <<Quote>> \o EscapeQuotes(stringValue) \o <<Quote>>

RECURSIVE Join(_)
\* cells.join(',')
Join(cells) ==
    IF cells = <<>> THEN <<>>
    ELSE IF Len(cells) = 1 THEN cells[1]
    ELSE cells[1] \o <<Comma>> \o Join(Tail(cells))

\* values.map(formatCsvValue).join(',') + '\n'
CsvLine(values) == Join([i \in 1..Len(values) |-> formatCsvValue(values[i])]) \o <<Newline>>

\* a bare scalar returned whatever the field asked for
extractAnswerValue_ScalarForAnyField(answer, field) ==
    IF answer.k \in {"absent", "null"} THEN <<>>
    ELSE IF answer.k = "record"
         THEN LET candidate == IF field = "value" THEN answer.value ELSE answer.followup
              IN IF candidate.t \in {"undefined", "null"} THEN <<>> ELSE StringOf(candidate)
         ELSE StringOf(answer.value)

extractAnswerValue(answer, field) ==
    IF answer.k \in {"absent", "null"} THEN <<>>
    ELSE IF answer.k = "record"
         THEN LET candidate == IF field = "value" THEN answer.value ELSE answer.followup
              IN IF candidate.t \in {"undefined", "null"} THEN <<>> ELSE StringOf(candidate)
         ELSE IF field = "value" THEN StringOf(answer.value) ELSE <<>>

\* a rating question given its value cell only
RatingValues_NoFollowup(ratingIds, answers) ==
    [i \in 1..Len(ratingIds) |-> Str(extractAnswerValue(answers[ratingIds[i]], "value"))]

RECURSIVE RatingValues(_, _)
\* server.js:191-195
RatingValues(ratingIds, answers) ==
    IF ratingIds = <<>> THEN <<>>
    ELSE << Str(extractAnswerValue(answers[Head(ratingIds)], "value")),
            Str(extractAnswerValue(answers[Head(ratingIds)], "followup")) >>
         \o RatingValues(Tail(ratingIds), answers)

\* server.js:186-189 and 197-200
SingleValues(ids, answers) ==
    [i \in 1..Len(ids) |-> Str(extractAnswerValue(answers[ids[i]], "value"))]

\* server.js:176-200: the values of one row
RowValues(sessionId, structuredAnswers, timestamps, config) ==
    LET answers == structuredAnswers.answers
        timestampStart == OrElse(OrElse(structuredAnswers.timestampStart, timestamps.start), Str(<<>>))
        timestampEnd == OrElse(OrElse(structuredAnswers.timestampEnd, timestamps.end), Str(<<>>))
    IN << sessionId, OrElse(timestampStart, Str(<<>>)), OrElse(timestampEnd, Str(<<>>)) >>
       \o SingleValues(config.openIds, answers)
       \o RatingValues(config.ratingIds, answers)
       \o SingleValues(config.radioIds, answers)

----------------------------------------------------------------------------
(* server.js: the inputs the model draws from *)

Calls == 1..MaxCalls

Q1 == <<"Q1">>
R1 == <<"R1">>
C1 == <<"C1">>
X1 == <<"X1">>
AnswerIds == {Q1, R1, C1, X1, QO_INTRO, QO_OUTRO}

NoAnswers == [id \in AnswerIds |-> Absent]
Answers(given) == [id \in AnswerIds |-> IF id \in DOMAIN given THEN given[id] ELSE Absent]

\* questions.json with three sections: the sentinels stand out of place, the
\* second section has no questions array, the third holds a question without
\* id and one of an unknown type.
ValidDefinition ==
    Definition(TRUE,
        << Section(TRUE, <<Question(QO_OUTRO, "open"), Question(Q1, "open"),
                           Question(R1, "rating")>>),
           Section(FALSE, <<>>),
           Section(TRUE, <<Question(<<>>, "open"), Question(C1, "radio"),
                           Question(QO_INTRO, "open"), Question(X1, "other")>>) >>)
\* questions.json that parses to an object without a sections array
NoSectionsDefinition == Definition(FALSE, <<>>)
\* the value null of cachedQuestionsDefinition
NullDefinition == [isNull |-> TRUE, isArray |-> FALSE, sections |-> <<>>]
Loaded(definition) == [isNull |-> FALSE, isArray |-> definition.isArray,
                       sections |-> definition.sections]

QuestionsFiles ==
    { [parses |-> TRUE, definition |-> ValidDefinition],
      [parses |-> TRUE, definition |-> NoSectionsDefinition],
      [parses |-> FALSE, definition |-> NoSectionsDefinition] }

StructuredAnswers(isObject, answers, timestampStart, timestampEnd) ==
    [isObject |-> isObject, answers |-> answers,
     timestampStart |-> timestampStart, timestampEnd |-> timestampEnd]

StructuredAnswersInputs ==
    { StructuredAnswers(FALSE, NoAnswers, Undefined, Undefined),
      StructuredAnswers(TRUE,
          Answers((Q1 :> Record(Str(<<"hello ", Quote, "world", Quote>>), Undefined))
                  @@ (R1 :> Record(Num(4), Str(<<"ok">>)))
                  @@ (QO_OUTRO :> Record(Str(<<"bye">>), Str(<<"unused">>)))
                  @@ (X1 :> Scalar(Num(12)))),
          Str(<<"t0">>), Str(<<"t1">>)),
      StructuredAnswers(TRUE,
          Answers((Q1 :> Scalar(Str(<<"a", Comma, "b">>)))
                  @@ (R1 :> Scalar(Num(3)))
                  @@ (C1 :> Record(Str(<<"yes">>), Null))
                  @@ (QO_INTRO :> Scalar(Str(<<"x", Newline, "y">>)))
                  @@ (QO_OUTRO :> NullAnswer)),
          Str(<<>>), Null) }

SessionId(p) == Str(<<"s">> \o NumberStringOf(p))

CallArgs(p) ==
    { [sessionId |-> SessionId(p), structuredAnswers |-> sa,
       timestamps |-> [start |-> Str(<<"t8">>), end |-> Undefined]]
      : sa \in StructuredAnswersInputs }

NoArgs == [sessionId |-> Undefined,
           structuredAnswers |-> StructuredAnswers(FALSE, NoAnswers, Undefined, Undefined),
           timestamps |-> [start |-> Undefined, end |-> Undefined]]

NoLog == [fsError |-> "none", loadFailed |-> FALSE, wroteHeader |-> FALSE,
          appended |-> FALSE, before |-> [exists |-> FALSE, bytes |-> <<>>],
          overlapped |-> FALSE]

NoHttp == [status |-> "none", success |-> FALSE, fsRejected |-> FALSE, snapshot |-> FALSE]
NoPhp == [served |-> 0, status |-> "none", fsRejected |-> FALSE, written |-> <<>>]

----------------------------------------------------------------------------
(* server.js: loadQuestionsDefinition and appendStructuredAnswersToCsv *)

\* server.js:46-52: the value the try/catch leaves in the cache
LoadResult(readOk, file) ==
    IF readOk /\ file.parses THEN Loaded(file.definition) ELSE NullDefinition

\* server.js:140
HeaderLine(columns) == CsvLine([i \in 1..Len(columns) |-> Str(columns[i])])

\* server.js:172-202: the line appended for one call
DataLine(a, definition) ==
    CsvLine(RowValues(a.sessionId, a.structuredAnswers, a.timestamps,
                      buildCsvConfiguration(flattenQuestions(definition))))

\* the rejection caught and dropped
Settle_Swallowed(fsOk) == "resolved"

\* how an awaited fs promise settles the async function that awaits it
\* outside any try block (server.js:141, server.js:203)
Settle(fsOk) == IF fsOk THEN "resolved" ELSE "rejected"

\* history: every other call in flight has had the file change under it
Overlap(p) ==
    [q \in Calls |->
        IF q # p /\ pc[q] \notin {"idle", "done"}
        THEN [log[q] EXCEPT !.overlapped = TRUE] ELSE log[q]]

\* server.js:167-174: after the definition is known
AfterLoad(p, definition) ==
    IF definition.isNull
    THEN /\ pc' = [pc EXCEPT ![p] = "done"]
         /\ outcome' = [outcome EXCEPT ![p] = "resolved"]
    ELSE /\ pc' = [pc EXCEPT ![p] = "access"]
         /\ UNCHANGED outcome

\* server.js:161-166 and 41-47: the call, up to its first await
Call(p, a) ==
    /\ pc[p] = "idle"
    /\ args' = [args EXCEPT ![p] = a]
    /\ log' = [log EXCEPT ![p].before = [exists |-> csvExists, bytes |-> csvBytes]]
    /\ IF ~a.structuredAnswers.isObject
       THEN /\ pc' = [pc EXCEPT ![p] = "done"]
            /\ outcome' = [outcome EXCEPT ![p] = "resolved"]
            /\ UNCHANGED questionsDefinition
       ELSE IF ~cachedQuestionsDefinition.isNull
       THEN /\ questionsDefinition' =
                  [questionsDefinition EXCEPT ![p] = cachedQuestionsDefinition]
            /\ AfterLoad(p, cachedQuestionsDefinition)
       ELSE /\ pc' = [pc EXCEPT ![p] = "readFile"]
            /\ UNCHANGED <<questionsDefinition, outcome>>
    /\ UNCHANGED <<questionsFile, cachedQuestionsDefinition, csvExists, csvBytes, reads,
                   http, php, pureIn, pureOut>>

\* server.js:47-54 and 166-174: readFile settles
ReadFileDone(p, readOk) ==
    /\ pc[p] = "readFile"
    /\ cachedQuestionsDefinition' = LoadResult(readOk, questionsFile)
    /\ reads' = reads + 1
    /\ questionsDefinition' = [questionsDefinition EXCEPT ![p] = cachedQuestionsDefinition']
    /\ log' = [log EXCEPT ![p].loadFailed = cachedQuestionsDefinition'.isNull,
                          ![p].fsError = IF readOk THEN "none" ELSE "readFile"]
    /\ AfterLoad(p, cachedQuestionsDefinition')
    /\ UNCHANGED <<questionsFile, csvExists, csvBytes, args, http, php, pureIn, pureOut>>

\* server.js:137-139: fs.access settles
AccessDone(p) ==
    /\ pc[p] = "access"
    /\ pc' = [pc EXCEPT ![p] = IF csvExists THEN "appendFile" ELSE "writeFile"]
    /\ UNCHANGED <<questionsFile, cachedQuestionsDefinition, csvExists, csvBytes, args,
                   questionsDefinition, outcome, log, reads, http, php, pureIn, pureOut>>

\* server.js:140-141 and 176-203: fs.writeFile of the header settles
WriteFileDone(p, fsOk) ==
    /\ pc[p] = "writeFile"
    /\ IF fsOk
       THEN /\ csvExists' = TRUE
            /\ csvBytes' = HeaderLine(
                   buildCsvConfiguration(flattenQuestions(questionsDefinition[p])).columns)
            /\ pc' = [pc EXCEPT ![p] = "appendFile"]
            /\ log' = [Overlap(p) EXCEPT ![p].wroteHeader = TRUE]
            /\ UNCHANGED outcome
       ELSE /\ pc' = [pc EXCEPT ![p] = "done"]
            /\ outcome' = [outcome EXCEPT ![p] = Settle(fsOk)]
            /\ log' = [log EXCEPT ![p].fsError = "writeFile"]
            /\ UNCHANGED <<csvExists, csvBytes>>
    /\ UNCHANGED <<questionsFile, cachedQuestionsDefinition, args, questionsDefinition,
                   reads, http, php, pureIn, pureOut>>

\* server.js:203: fs.appendFile settles
AppendFileDone(p, fsOk) ==
    /\ pc[p] = "appendFile"
    /\ pc' = [pc EXCEPT ![p] = "done"]
    /\ outcome' = [outcome EXCEPT ![p] = Settle(fsOk)]
    /\ IF fsOk
       THEN /\ csvExists' = TRUE
            /\ csvBytes' = (IF csvExists THEN csvBytes ELSE <<>>)
                           \o DataLine(args[p], questionsDefinition[p])
            /\ log' = [Overlap(p) EXCEPT ![p].appended = TRUE]
       ELSE /\ log' = [log EXCEPT ![p].fsError = "appendFile"]
            /\ UNCHANGED <<csvExists, csvBytes>>
    /\ UNCHANGED <<questionsFile, cachedQuestionsDefinition, args, questionsDefinition,
                   reads, http, php, pureIn, pureOut>>

----------------------------------------------------------------------------
(* server.js: POST /api/save-responses *)

\* server.js:272-330: one request.  hasSessionId and hasResponses are the
\* truthiness of the two required body fields; mkdirOk and writeOk say whether
\* ensureResponsesDir and the snapshot's writeFile succeed.
SaveResponsesResult(hasSessionId, hasResponses, mkdirOk, writeOk) ==
    IF ~hasSessionId \/ ~hasResponses
    THEN [status |-> "400", success |-> FALSE, fsRejected |-> FALSE, snapshot |-> FALSE]
    ELSE IF ~mkdirOk \/ ~writeOk
    THEN [status |-> "500", success |-> FALSE, fsRejected |-> TRUE, snapshot |-> FALSE]
    ELSE [status |-> "200", success |-> TRUE, fsRejected |-> FALSE, snapshot |-> TRUE]

SaveResponses(hasSessionId, hasResponses, mkdirOk, writeOk) ==
    /\ http' = SaveResponsesResult(hasSessionId, hasResponses, mkdirOk, writeOk)
    /\ UNCHANGED <<questionsFile, cachedQuestionsDefinition, csvExists, csvBytes, pc, args,
                   questionsDefinition, outcome, log, reads, php, pureIn, pureOut>>

----------------------------------------------------------------------------
(* The Node writer: concurrent calls of appendStructuredAnswersToCsv *)

Init ==
    /\ questionsFile \in QuestionsFiles
    /\ cachedQuestionsDefinition = NullDefinition
    /\ csvExists = FALSE
    /\ csvBytes = <<>>
    /\ pc = [p \in Calls |-> "idle"]
    /\ args = [p \in Calls |-> NoArgs]
    /\ questionsDefinition = [p \in Calls |-> NullDefinition]
    /\ outcome = [p \in Calls |-> "pending"]
    /\ log = [p \in Calls |-> NoLog]
    /\ reads = 0
    /\ http = NoHttp
    /\ php = NoPhp
    /\ pureIn = <<>>
    /\ pureOut = <<>>

Next ==
    \/ \E p \in Calls : \E a \in CallArgs(p) : Call(p, a)
    \/ \E p \in Calls : \E readOk \in BOOLEAN : ReadFileDone(p, readOk)
    \/ \E p \in Calls : AccessDone(p)
    \/ \E p \in Calls : \E fsOk \in BOOLEAN : WriteFileDone(p, fsOk)
    \/ \E p \in Calls : \E fsOk \in BOOLEAN : AppendFileDone(p, fsOk)

Spec == Init /\ [][Next]_vars

----------------------------------------------------------------------------
(* Reading a CSV file back: quoted fields, doubled quotes, comma, newline *)

\* a comma or newline separates only outside quotes, that is after an even
\* number of quote characters
Separators(b, c) ==
    {i \in 1..Len(b) : b[i] = c /\ Cardinality({k \in 1..(i - 1) : b[k] = Quote}) % 2 = 0}

First(S) == CHOOSE i \in S : \A j \in S : i <= j

RECURSIVE Lines(_)
\* the newline-terminated rows of a text (and an unterminated last one)
Lines(b) ==
    IF b = <<>> THEN <<>>
    ELSE LET ends == Separators(b, Newline)
         IN IF ends = {} THEN <<b>>
            ELSE <<SubSeq(b, 1, First(ends) - 1)>> \o Lines(SubSeq(b, First(ends) + 1, Len(b)))

RECURSIVE Fields(_)
\* the comma-separated fields of a row, still quoted
Fields(line) ==
    LET commas == Separators(line, Comma)
    IN IF commas = {} THEN <<line>>
       ELSE <<SubSeq(line, 1, First(commas) - 1)>>
            \o Fields(SubSeq(line, First(commas) + 1, Len(line)))

RECURSIVE Unquote(_, _, _)
\* the value of a field: enclosing quotes dropped, doubled quotes read as one
Unquote(f, i, inQuotes) ==
    IF i > Len(f) THEN <<>>
    ELSE IF inQuotes
    THEN IF f[i] = Quote
         THEN IF i < Len(f) /\ f[i + 1] = Quote
              THEN <<Quote>> \o Unquote(f, i + 2, TRUE)
              ELSE Unquote(f, i + 1, FALSE)
         ELSE <<f[i]>> \o Unquote(f, i + 1, TRUE)
    ELSE IF f[i] = Quote THEN Unquote(f, i + 1, TRUE)
    ELSE <<f[i]>> \o Unquote(f, i + 1, FALSE)

\* the rows of a CSV text, each a sequence of field values
ParseCsv(bytes) ==
    LET lines == Lines(bytes)
    IN [r \in 1..Len(lines) |->
           LET fields == Fields(lines[r])
           IN [c \in 1..Len(fields) |-> Unquote(fields[c], 1, FALSE)]]

Rows == IF csvExists THEN ParseCsv(csvBytes) ELSE <<>>

----------------------------------------------------------------------------
(* What the design says, stated without the code's functions *)

\* decimal text of the numbers the inputs use
Decimal == (0 :> <<"0">>) @@ (3 :> <<"3">>) @@ (4 :> <<"4">>) @@ (12 :> <<"1", "2">>)

TextOf(v) ==
    CASE v.t = "string" -> v.s
      [] v.t = "number" -> Decimal[v.n]
      [] OTHER -> <<>>

\* section 4.3: extract(answerSet, questionId, field)
ExpectedExtract(answer, field) ==
    CASE answer.k = "record" -> TextOf(IF field = "followup" THEN answer.followup
                                                            ELSE answer.value)
      [] answer.k = "scalar" /\ field = "value" -> TextOf(answer.value)
      [] OTHER -> <<>>

\* the questions of a definition, sections and questions in file order
DeclaredQuestions(definition) ==
    LET secs == IF definition.isArray
                THEN SelectSeq(definition.sections, LAMBDA sec : sec.isArray) ELSE <<>>
        count[k \in 0..Len(secs)] ==
            IF k = 0 THEN 0 ELSE count[k - 1] + Len(secs[k].questions)
        at(n) == LET k == CHOOSE k \in 1..Len(secs) : count[k - 1] < n /\ n <= count[k]
                 IN secs[k].questions[n - count[k - 1]]
    IN SelectSeq([n \in 1..count[Len(secs)] |-> at(n)], LAMBDA q : q.id # <<>>)

IdsOf(questions, type) ==
    LET qs == SelectSeq(questions, LAMBDA q : q.type = type)
    IN [i \in 1..Len(qs) |-> qs[i].id]

\* section 4.2: intro first, outro last, the others in schema order
ExpectedOpenColumns(questions) ==
    LET open == IdsOf(questions, "open")
    IN SelectSeq(open, LAMBDA id : id = QO_INTRO)
       \o SelectSeq(open, LAMBDA id : id \notin {QO_INTRO, QO_OUTRO})
       \o SelectSeq(open, LAMBDA id : id = QO_OUTRO)

\* section 3: the column layout of a schema
ExpectedLayout(questions) ==
    LET rating == IdsOf(questions, "rating")
    IN BaseColumns
       \o ExpectedOpenColumns(questions)
       \o [i \in 1..(2 * Len(rating)) |->
              IF i % 2 = 1 THEN rating[(i + 1) \div 2]
              ELSE rating[i \div 2] \o FollowupSuffix]
       \o IdsOf(questions, "radio")

FirstTruthy(a, b) == IF Truthy(a) THEN TextOf(a) ELSE IF Truthy(b) THEN TextOf(b) ELSE <<>>

\* the value a submission has for the column of a given name
ValueForColumn(name, a) ==
    CASE name = <<"sessionId">> -> TextOf(a.sessionId)
      [] name = <<"timestampStart">> ->
            FirstTruthy(a.structuredAnswers.timestampStart, a.timestamps.start)
      [] name = <<"timestampEnd">> ->
            FirstTruthy(a.structuredAnswers.timestampEnd, a.timestamps.end)
      [] Len(name) > 1 /\ name[Len(name)] = FollowupSuffix[1] ->
            ExpectedExtract(a.structuredAnswers.answers[SubSeq(name, 1, Len(name) - 1)],
                            "followup")
      [] OTHER -> ExpectedExtract(a.structuredAnswers.answers[name], "value")

\* the row a submission must produce under a header
ExpectedRow(header, a) == [i \in 1..Len(header) |-> ValueForColumn(header[i], a)]

----------------------------------------------------------------------------
(* Claims about the Node writer *)

Done(p) == pc[p] = "done"
AllDone == \A p \in Calls : Done(p)
Appended == {p \in Calls : log[p].appended}
HeaderRow == ExpectedLayout(DeclaredQuestions(questionsFile.definition))
\* questions.json is well formed
ValidSchema == questionsFile.parses /\ questionsFile.definition.isArray

\* C1: under a well-formed schema, calls that interleave on an initially
\* absent file behave as if the header check and the append were one atomic
\* step: at most one of them writes the header, and once all have settled the
\* file is the header followed by the complete row of every call that
\* appended.
C1_AtomicHeaderAndAppend ==
    LET rows == Rows
        header == HeaderRow
    IN ValidSchema =>
       /\ Cardinality({p \in Calls : log[p].wroteHeader}) <= 1
       /\ AllDone /\ Appended # {} =>
             /\ Len(rows) = 1 + Cardinality(Appended)
             /\ rows[1] = header
             /\ \A p \in Appended :
                   \E j \in 2..Len(rows) : rows[j] = ExpectedRow(header, args[p])

\* C3: under a well-formed schema, when the append of a call's data row is
\* rejected and no other call wrote meanwhile, the file is exactly as it was
\* when the call started: the same content, and absent if it was absent (no
\* header-only file).
C3_FailedAppendLeavesFileUntouched ==
    \A p \in Calls :
        ValidSchema /\ Done(p) /\ log[p].fsError = "appendFile" /\ ~log[p].overlapped =>
            /\ csvExists = log[p].before.exists
            /\ csvBytes = log[p].before.bytes

\* C4: in every state of the file written by the Node writer under one
\* schema, the first row is the header of that schema and every data row has
\* as many fields as the header, field i holding the submission's value for
\* the column named by header field i.
C4_RowsMatchHeader ==
    LET rows == Rows
    IN csvExists =>
          /\ Len(rows) >= 1
          /\ rows[1] = HeaderRow
          /\ \A j \in 2..Len(rows) :
                /\ Len(rows[j]) = Len(rows[1])
                /\ \E p \in Appended : rows[j] = ExpectedRow(rows[1], args[p])

C4_Witness ==
    LET rows == Rows
    IN /\ questionsFile.definition = ValidDefinition
       /\ Len(rows) = 3
       /\ rows[1][4] = QO_INTRO /\ rows[1][8] = R1 \o FollowupSuffix
       /\ \E j \in 2..3 : /\ rows[j][4] = <<"x", Newline, "y">>
                          /\ rows[j][7] = <<"3">> /\ rows[j][8] = <<>>
       /\ \E j \in 2..3 : /\ rows[j][5] = <<"hello ", Quote, "world", Quote>>
                          /\ rows[j][7] = <<"4">> /\ rows[j][8] = <<"ok">>

\* the Node writer, called one call after the other on an absent file, leaves
\* the header followed by one row per call that appended
NodeSequentialAppends ==
    LET rows == Rows
    IN csvExists /\ (\A p \in Calls : ~log[p].overlapped) =>
          rows[1] = HeaderRow /\ Len(rows) = 1 + Cardinality(Appended)

\* C5: a rejected write is never swallowed: a call whose header write or
\* append was rejected by the filesystem settles as rejected, which its
\* caller tells from the resolved promise of a call that wrote its row.
C5_WriteErrorPropagates ==
    \A p \in Calls :
        Done(p) /\ log[p].fsError \in {"writeFile", "appendFile"} =>
            outcome[p] = "rejected" /\ ~log[p].appended

C5_Witness ==
    /\ \E p \in Calls : Done(p) /\ log[p].fsError = "appendFile" /\ outcome[p] = "rejected"
    /\ \E p \in Calls : Done(p) /\ log[p].fsError = "writeFile" /\ outcome[p] = "rejected"

\* C6: when questions.json cannot be read, cannot be parsed or has no
\* sections array, the call ends as a failure; it never resolves as if it had
\* succeeded with no row written.
C6_SchemaErrorReported ==
    \A p \in Calls :
        Done(p) /\ args[p].structuredAnswers.isObject
                /\ (log[p].loadFailed \/ ~questionsDefinition[p].isArray) =>
            outcome[p] = "rejected"

\* C10: once the cache holds the definition loaded from a well-formed
\* questions.json it is never reassigned and the file is not read again.
C10_CacheWrittenOnce ==
    [][ValidSchema /\ ~cachedQuestionsDefinition.isNull =>
          /\ cachedQuestionsDefinition' = cachedQuestionsDefinition
          /\ reads' = reads]_vars

----------------------------------------------------------------------------
(* public/savecsv.php *)

\* isset($x)
IsSet(v) == v.t \notin {"undefined", "null"}
\* (string)$x
PhpString(v) == IF IsSet(v) THEN StringOf(v) ELSE <<>>

Latin1 == ("é" :> "\\xE9")
\* utf8_decode: ASCII text is unchanged, a Latin-1 letter becomes one byte
Utf8Decode(s) == [i \in 1..Len(s) |-> IF s[i] \in DOMAIN Latin1 THEN Latin1[s[i]] ELSE s[i]]

\* savecsv.php:41-61: the ids of one type, sections and questions in file order
RECURSIVE PhpIdsOfType(_, _)
PhpIdsOfType(sections, type) ==
    IF sections = <<>> THEN <<>>
    ELSE LET section == Head(sections)
             questions == IF section.isArray
                          THEN SelectSeq(section.questions,
                                         LAMBDA q : q.id # <<>> /\ q.type = type)
                          ELSE <<>>
         IN [i \in 1..Len(questions) |-> questions[i].id]
            \o PhpIdsOfType(Tail(sections), type)

\* savecsv.php:63-70; the value is already a string or a number
PhpFormatCsvValue(value) == <<Quote>> \o EscapeQuotes(PhpString(value)) \o <<Quote>>

\* savecsv.php:71-80
extractAnswer(answers, key, field) ==
    LET answer == answers[key]
    IN IF answer.k \in {"absent", "null"} THEN Str(<<>>)
       ELSE IF answer.k = "record"
            THEN LET candidate == IF field = "value" THEN answer.value ELSE answer.followup
                 IN IF IsSet(candidate) THEN candidate ELSE Str(<<>>)
            ELSE IF field = "value" THEN answer.value ELSE Str(<<>>)

\* savecsv.php:82-85
decodeOpenText(value) == Str(Utf8Decode(PhpString(value)))

RECURSIVE PhpOpenCells(_, _)
\* savecsv.php:93-98
PhpOpenCells(openIds, answers) ==
    IF openIds = <<>> THEN <<>>
    ELSE << PhpFormatCsvValue(decodeOpenText(extractAnswer(answers, Head(openIds), "value"))),
            PhpFormatCsvValue(decodeOpenText(extractAnswer(answers, Head(openIds), "followup"))) >>
         \o PhpOpenCells(Tail(openIds), answers)

\* savecsv.php:99-104
PhpValueCells(ids, answers) ==
    [i \in 1..Len(ids) |-> PhpFormatCsvValue(extractAnswer(answers, ids[i], "value"))]

\* savecsv.php:20-24 and 87-107: the line of one request
PhpLine(data, sections) ==
    LET sessionId == Str(PhpString(data.sessionId))
        structuredAnswers == data.structuredAnswers
        answers == IF structuredAnswers.isObject THEN structuredAnswers.answers ELSE NoAnswers
        nested(v) == IF structuredAnswers.isObject /\ IsSet(v) THEN v ELSE Str(<<>>)
        timestampStart == IF IsSet(data.timestampStart) THEN data.timestampStart
                          ELSE nested(structuredAnswers.timestampStart)
        timestampEnd == IF IsSet(data.timestampEnd) THEN data.timestampEnd
                        ELSE nested(structuredAnswers.timestampEnd)
    IN Join(<< PhpFormatCsvValue(sessionId), PhpFormatCsvValue(timestampStart),
               PhpFormatCsvValue(timestampEnd) >>
            \o PhpOpenCells(PhpIdsOfType(sections, "open"), answers)
            \o PhpValueCells(PhpIdsOfType(sections, "rating"), answers)
            \o PhpValueCells(PhpIdsOfType(sections, "radio"), answers))
       \o <<Newline>>

\* the decoded request bodies the model draws from; valid = FALSE is a body
\* json_decode rejects
PhpBody(valid, sessionId, structuredAnswers, timestampStart, timestampEnd) ==
    [valid |-> valid, sessionId |-> sessionId, structuredAnswers |-> structuredAnswers,
     timestampStart |-> timestampStart, timestampEnd |-> timestampEnd]

PhpBodies ==
    { PhpBody(FALSE, Undefined, StructuredAnswers(FALSE, NoAnswers, Undefined, Undefined),
              Undefined, Undefined),
      PhpBody(TRUE, Str(<<"s1">>),
              StructuredAnswers(TRUE,
                  Answers((Q1 :> Record(Str(<<"hello ", Quote, "world", Quote>>), Undefined))
                          @@ (R1 :> Record(Num(4), Str(<<"ok">>)))),
                  Str(<<"t0">>), Str(<<"t1">>)),
              Undefined, Undefined),
      PhpBody(TRUE, Str(<<"s2">>),
              StructuredAnswers(TRUE,
                  Answers((Q1 :> Scalar(Str(<<"caf", "é", Comma, "b">>)))
                          @@ (R1 :> Scalar(Num(3)))
                          @@ (C1 :> Record(Str(<<"yes">>), Null))),
                  Undefined, Undefined),
              Str(<<"t8">>), Null),
      PhpBody(TRUE, Num(12), StructuredAnswers(FALSE, NoAnswers, Undefined, Undefined),
              Undefined, Undefined) }

\* savecsv.php:10-113: one request, from the body to the response
PhpResponse(data, readOk, writeOk, file) ==
    IF ~data.valid THEN "400"
    ELSE IF ~readOk THEN "500"
    ELSE IF ~file.parses \/ ~file.definition.isArray THEN "500"
    ELSE IF ~writeOk THEN "500"
    ELSE "200"

PhpRequest(data, readOk, writeOk) ==
    LET status == PhpResponse(data, readOk, writeOk, questionsFile)
        reachedWrite == data.valid /\ readOk /\ questionsFile.parses
                        /\ questionsFile.definition.isArray
    IN /\ php.served < MaxRequests
       /\ php' = [served |-> php.served + 1,
                  status |-> status,
                  fsRejected |-> reachedWrite /\ ~writeOk,
                  written |-> IF status = "200" THEN Append(php.written, data)
                              ELSE php.written]
       /\ IF status = "200"
          THEN /\ csvExists' = TRUE
               /\ csvBytes' = (IF csvExists THEN csvBytes ELSE <<>>)
                              \o PhpLine(data, questionsFile.definition.sections)
          ELSE UNCHANGED <<csvExists, csvBytes>>
       /\ UNCHANGED <<questionsFile, cachedQuestionsDefinition, pc, args,
                      questionsDefinition, outcome, log, reads, http, pureIn, pureOut>>

----------------------------------------------------------------------------
(* The request handlers: savecsv.php and POST /api/save-responses *)

NextRequests ==
    \/ \E data \in PhpBodies : \E readOk, writeOk \in BOOLEAN :
          PhpRequest(data, readOk, writeOk)
    \/ \E hasSessionId, hasResponses, mkdirOk, writeOk \in BOOLEAN :
          SaveResponses(hasSessionId, hasResponses, mkdirOk, writeOk)

SpecRequests == Init /\ [][NextRequests]_vars

----------------------------------------------------------------------------
(* Claims about the request handlers *)

\* a savecsv.php body as the submission the design describes
Submission(data) ==
    [sessionId |-> data.sessionId, structuredAnswers |-> data.structuredAnswers,
     timestamps |-> [start |-> data.timestampStart, end |-> data.timestampEnd]]

\* C2: starting from an absent file, after n successful appends the file is
\* one header row followed by the n data rows, in the order of the appends.
C2_HeaderThenRows ==
    LET rows == Rows
    IN csvExists =>
          /\ Len(rows) = 1 + Len(php.written)
          /\ rows[1] = HeaderRow
          /\ \A i \in 1..Len(php.written) :
                rows[i + 1][1] = TextOf(php.written[i].sessionId)

\* C7: every rendered row is sessionId, timestampStart, timestampEnd, then one
\* value per open question, then value and followup per rating question, then
\* one value per radio question, each group in schema order.
C7_RowsFollowLayout ==
    LET rows == Rows
    IN \A i \in 1..Len(php.written) :
          \E j \in 1..Len(rows) : rows[j] = ExpectedRow(HeaderRow, Submission(php.written[i]))

\* savecsv.php and save-responses answer a rejected write with 500
RequestWriteErrorReported ==
    /\ php.fsRejected => php.status = "500"
    /\ http.fsRejected => http.status = "500" /\ ~http.success

\* savecsv.php answers an unreadable or malformed questions.json with 500
PhpSchemaErrorReported ==
    php.served > 0 /\ (~questionsFile.parses \/ ~questionsFile.definition.isArray) =>
        php.status \in {"400", "500"} /\ ~csvExists

----------------------------------------------------------------------------
(* The layout builder on its own *)

LayoutIds == {QO_INTRO, QO_OUTRO, Q1, R1}
LayoutQuestions == {Question(id, type) : id \in LayoutIds, type \in {"open", "rating", "radio"}}

\* the schemas of at most MaxQuestions questions with unique ids
Schemas ==
    {s \in UNION {[1..n -> LayoutQuestions] : n \in 0..MaxQuestions} :
        \A i, j \in 1..Len(s) : i # j => s[i].id # s[j].id}

Idle ==
    /\ questionsFile = [parses |-> TRUE, definition |-> ValidDefinition]
    /\ cachedQuestionsDefinition = NullDefinition
    /\ csvExists = FALSE
    /\ csvBytes = <<>>
    /\ pc = [p \in Calls |-> "idle"]
    /\ args = [p \in Calls |-> NoArgs]
    /\ questionsDefinition = [p \in Calls |-> NullDefinition]
    /\ outcome = [p \in Calls |-> "pending"]
    /\ log = [p \in Calls |-> NoLog]
    /\ reads = 0
    /\ http = NoHttp
    /\ php = NoPhp

InitLayout == Idle /\ pureIn \in {<<s>> : s \in Schemas} /\ pureOut = <<>>

BuildLayout ==
    /\ pureOut = <<>>
    /\ pureOut' = <<buildCsvConfiguration(pureIn[1])>>
    /\ UNCHANGED <<questionsFile, cachedQuestionsDefinition, csvExists, csvBytes, pc, args,
                   questionsDefinition, outcome, log, reads, http, php, pureIn>>

NextLayout == BuildLayout

SpecLayout == InitLayout /\ [][NextLayout]_vars

Sentinels == {QO_INTRO, QO_OUTRO}

\* C8: among the open columns QO_INTRO comes first and QO_OUTRO last wherever
\* they stand in the schema, the other open ids keep their schema order
\* between them, and the open columns are exactly the open ids of the schema;
\* with no sentinel the open columns are the schema order.
C8_SentinelsPinned ==
    pureOut # <<>> =>
        LET open == IdsOf(pureIn[1], "open")
            out == pureOut[1].openIds
            n == Len(out)
        IN /\ Len(out) = Len(open)
           /\ {out[i] : i \in 1..n} = {open[i] : i \in 1..n}
           /\ Contains(open, QO_INTRO) => out[1] = QO_INTRO
           /\ Contains(open, QO_OUTRO) => out[n] = QO_OUTRO
           /\ SelectSeq(out, LAMBDA id : id \notin Sentinels)
                 = SelectSeq(open, LAMBDA id : id \notin Sentinels)
           /\ (~Contains(open, QO_INTRO) /\ ~Contains(open, QO_OUTRO)) => out = open
           /\ SubSeq(pureOut[1].columns, 4, 3 + n) = out

C8_Witness ==
    /\ pureOut # <<>>
    /\ pureIn[1] = <<Question(QO_OUTRO, "open"), Question(Q1, "open"),
                     Question(QO_INTRO, "open")>>
    /\ pureOut[1].openIds = <<QO_INTRO, Q1, QO_OUTRO>>

\* the layout of server.js is the layout of section 3 of the design
NodeLayoutAsDesigned ==
    pureOut # <<>> => pureOut[1].columns = ExpectedLayout(pureIn[1])

----------------------------------------------------------------------------
(* The answer extractor on its own *)

ExtractValues == {Undefined, Null, Str(<<>>), Str(<<"ok">>), Num(0), Num(4), Num(12)}
ExtractAnswers ==
    {Absent, NullAnswer}
    \cup {Scalar(v) : v \in {w \in ExtractValues : w.t \in {"string", "number"}}}
    \cup {Record(v, f) : v \in ExtractValues, f \in ExtractValues}

InitExtract ==
    /\ Idle
    /\ pureIn \in {<<[answer |-> a, field |-> f]>> :
                      a \in ExtractAnswers, f \in {"value", "followup"}}
    /\ pureOut = <<>>

\* extractAnswerValue(answers[id], field), and the two cells server.js:191-195
\* render when the answer belongs to a rating question
Extract ==
    /\ pureOut = <<>>
    /\ pureOut' = << [value |-> extractAnswerValue(pureIn[1].answer, pureIn[1].field),
                      ratingLine |-> CsvLine(RatingValues(<<R1>>,
                                         Answers(R1 :> pureIn[1].answer)))] >>
    /\ UNCHANGED <<questionsFile, cachedQuestionsDefinition, csvExists, csvBytes, pc, args,
                   questionsDefinition, outcome, log, reads, http, php, pureIn>>

NextExtract == Extract

SpecExtract == InitExtract /\ [][NextExtract]_vars

\* C9: extract returns the empty string for an absent or null answer; for a
\* record the requested field as a string, empty if the field is absent; for
\* a bare scalar the scalar as a string for the field value and the empty
\* string for the field followup, so that a rating question answered with a
\* scalar renders an empty followup cell.
C9_Extract ==
    pureOut # <<>> =>
        LET answer == pureIn[1].answer
            field == pureIn[1].field
            value == pureOut[1].value
            cells == ParseCsv(pureOut[1].ratingLine)[1]
        IN /\ answer.k \in {"absent", "null"} => value = <<>>
           /\ answer.k = "record" /\ field = "value" => value = TextOf(answer.value)
           /\ answer.k = "record" /\ field = "followup" => value = TextOf(answer.followup)
           /\ answer.k = "scalar" /\ field = "value" => value = TextOf(answer.value)
           /\ answer.k = "scalar" /\ field = "followup" => value = <<>>
           /\ answer.k = "scalar" => cells = <<TextOf(answer.value), <<>> >>

C9_Witness ==
    /\ pureOut # <<>>
    /\ pureIn[1] = [answer |-> Scalar(Num(12)), field |-> "followup"]
    /\ pureOut[1].value = <<>>
    /\ pureOut[1].ratingLine = <<Quote, "1", "2", Quote, Comma, Quote, Quote, Newline>>

====
